---- MODULE Spec2Model ----
(***************************************************************************)
(* Model of src-tauri/src/commands/simple_git.rs: the commit-range revert  *)
(* engine (git_revert_range), the checkpoint committer                     *)
(* (git_commit_changes) and the reset safety classifier                    *)
(* (check_reset_safety), together with the part of git's behaviour the     *)
(* code drives through `git` commands.                                     *)
(*                                                                         *)
(* Strings the code inspects (commit subjects, markers) are sequences of   *)
(* one-character strings, so that `contains` and `to_lowercase` are        *)
(* computed and not assumed.  A commit hash is the position of the commit  *)
(* in the (linear) history; reference 0 is a hash git cannot resolve.      *)
(***************************************************************************)
EXTENDS Integers, Sequences, FiniteSets, TLC

VARIABLES
    repo,    \* the repository at project_path (git's durable state)
    op,      \* the operation the last step executed
    args,    \* the arguments of that operation
    result,  \* what that operation returned
    cmds,    \* the git commands that operation issued, in order
    calls    \* the calls that run command by command, each with its
             \* arguments, its position and its local variables

vars == <<repo, op, args, result, cmds, calls>>

----------------------------------------------------------------------------
(* Bounds of the model *)

\* Longest history explored by the revert specification.
MaxHist == 4
\* Longest history explored by the safety specification.
MaxLog == 12
\* Commits after the bootstrap commit whose subject is chosen freely; later
\* commits repeat the subject of the commit before them.
MaxVaried == 2
\* Targets of check_reset_safety: the first MaxTarget commits, HEAD, and the
\* unresolvable reference 0.
MaxTarget == 2
\* Longest history explored by the specification of lock contention.
MaxLockHist == 3
\* Longest history explored by the specification of the queries.
MaxQueryHist == 3
\* Longest history that the specification of the count query edits.
MaxCountHist == 3
\* Longest history checkpointed before the two concurrent calls are made.
MaxRaceHist == 2

----------------------------------------------------------------------------
(* Strings *)

\* str::contains: pat occurs in s as a contiguous substring.
Contains(s, pat) ==
    \E i \in 0..(Len(s) - Len(pat)) : SubSeq(s, i + 1, i + Len(pat)) = pat

UpperToLower ==
    [A |-> "a", B |-> "b", C |-> "c", D |-> "d", E |-> "e", F |-> "f",
     G |-> "g", H |-> "h", I |-> "i", J |-> "j", K |-> "k", L |-> "l",
     M |-> "m", N |-> "n", O |-> "o", P |-> "p", Q |-> "q", R |-> "r",
     S |-> "s", T |-> "t", U |-> "u", V |-> "v", W |-> "w", X |-> "x",
     Y |-> "y", Z |-> "z"]

\* str::to_lowercase, character by character.
ToLowercase(s) ==
    [i \in 1..Len(s) |->
        IF s[i] \in DOMAIN UpperToLower THEN UpperToLower[s[i]] ELSE s[i]]

\* line.trim().is_empty()
TrimIsEmpty(s) == \A i \in 1..Len(s) : s[i] = " "

\* Iterator::take(n)
Take(s, n) == SubSeq(s, 1, IF Len(s) < n THEN Len(s) ELSE n)

Reverse(s) == [i \in 1..Len(s) |-> s[Len(s) + 1 - i]]

\* The marker literals of check_reset_safety.
PatClaude == <<"[", "C", "l", "a", "u", "d", "e">>
PatClaudeCode == <<"[", "C", "l", "a", "u", "d", "e", " ", "C", "o", "d", "e", "]">>
PatCodex == <<"[", "C", "o", "d", "e", "x", "]">>
PatGemini == <<"[", "G", "e", "m", "i", "n", "i", "]">>
PatWorkbench ==
    <<"[", "C", "l", "a", "u", "d", "e", " ", "W", "o", "r", "k", "b", "e",
      "n", "c", "h", "]">>
PatMerge == <<"m", "e", "r", "g", "e">>
\* The literals git_revert_range looks for in the stderr of a failed revert.
PatConflict == <<"c", "o", "n", "f", "l", "i", "c", "t">>
PatConflictUpper == <<"C", "O", "N", "F", "L", "I", "C", "T">>

\* Commit messages are TLA+ strings; CharsOf gives the characters of each, which
\* is what the string operations above work on.
\* The message of the bootstrap commit of ensure_git_repo.
InitialCommitMsg == "[Claude Workbench] Initial commit - preserving existing code"
ClaudeCodeSubject == "[Claude Code] a"
CodexSubject == "[Codex] b"
GeminiSubject == "[Gemini] c"
TwoMarkerSubject == "[Codex] [Gemini]"
UserSubject == "fix"
MergeSubject == "Merge x"
UserMergeWordSubject == "fix merge"
EmptySubject == ""
\* Messages the callers of git_commit_changes and git_revert_range pass.
RevertMsg == "[Revert] r"
StashMsg == "stash s"
CheckpointMsg == "[Codex] e"

CharsOf ==
    InitialCommitMsg :> 
    <<"[", "C", "l", "a", "u", "d", "e", " ", "W", "o", "r", "k", "b", "e",
      "n", "c", "h", "]", " ", "I", "n", "i", "t", "i", "a", "l", " ", "c",
      "o", "m", "m", "i", "t", " ", "-", " ", "p", "r", "e", "s", "e", "r",
      "v", "i", "n", "g", " ", "e", "x", "i", "s", "t", "i", "n", "g", " ",
      "c", "o", "d", "e">>
    @@
    ClaudeCodeSubject :> 
    <<"[", "C", "l", "a", "u", "d", "e", " ", "C", "o", "d", "e", "]", " ",
      "a">>
    @@
    CodexSubject :> 
    <<"[", "C", "o", "d", "e", "x", "]", " ", "b">>
    @@
    GeminiSubject :> 
    <<"[", "G", "e", "m", "i", "n", "i", "]", " ", "c">>
    @@
    TwoMarkerSubject :> 
    <<"[", "C", "o", "d", "e", "x", "]", " ", "[", "G", "e", "m", "i", "n",
      "i", "]">>
    @@
    UserSubject :> 
    <<"f", "i", "x">>
    @@
    MergeSubject :> 
    <<"M", "e", "r", "g", "e", " ", "x">>
    @@
    UserMergeWordSubject :> 
    <<"f", "i", "x", " ", "m", "e", "r", "g", "e">>
    @@
    EmptySubject :> <<>>
    @@
    RevertMsg :> 
    <<"[", "R", "e", "v", "e", "r", "t", "]", " ", "r">>
    @@
    CheckpointMsg :> 
    <<"[", "C", "o", "d", "e", "x", "]", " ", "e">>

Chars(msg) == CharsOf[msg]

\* Commit subjects found in a history the engines and their users share.
Subjects ==
    {ClaudeCodeSubject, CodexSubject, GeminiSubject, TwoMarkerSubject,
     UserSubject, MergeSubject, UserMergeWordSubject, EmptySubject}

\* The values of current_engine callers pass; "unknown" takes the `_` arm.
Engines == {"claude", "codex", "gemini", "unknown"}

----------------------------------------------------------------------------
(* The repository *)

Files == {"a", "b"}
\* The contents an editor gives a file; "absent" is a file that does not exist.
\* git writes a fourth content, "conflict": a file holding conflict markers.
Versions == [a |-> {"absent", "v1", "v2"}, b |-> {"absent", "v1"}]
EmptyTree == [f \in Files |-> "absent"]

\* Commit hashes are positions in the history; HEAD is the last one.
HeadRef(r) == Len(r.commits)
Resolves(r, ref) == r.git /\ ref \in 1..Len(r.commits)
TreeAt(r, ref) == IF ref \in 1..Len(r.commits) THEN r.commits[ref].tree ELSE EmptyTree
HeadTree(r) == TreeAt(r, HeadRef(r))
\* The empty string given for a hash.  It resolves to nothing; in a range
\* `from..to` git reads HEAD for the side that is empty.
EmptyRef == -1
RangeSide(r, ref) == IF ref = EmptyRef THEN HeadRef(r) ELSE ref

Ok(v) == [ok |-> TRUE, val |-> v]
Err(e) == [ok |-> FALSE, err |-> e]
\* The value of `result` after a step that returns nothing.
NoResult == [ok |-> TRUE, val |-> "none"]

\* A call of git_revert_range that runs command by command: its arguments,
\* the command it issues next (pc), its local commit_count, and what it
\* returned.  Two fields are kept for the properties: the length of the
\* history when the call was made, and the content that
\* `git revert --no-commit` staged for each file (the inverse changes).
NotCalledRevertRange ==
    [pc |-> "idle", commit_before |-> 0, commit_after |-> 0, message |-> "",
     commit_count |-> 0, history_at_call |-> 0,
     inverse |-> [f \in Files |-> "untouched"], ret |-> NoResult]
\* A call of git_commit_changes that runs command by command.
NotCalledCommitChanges == [pc |-> "idle", message |-> "", ret |-> NoResult]
\* No call runs command by command: every operation is one step.
NoCalls ==
    [git_revert_range |-> NotCalledRevertRange,
     git_commit_changes |-> NotCalledCommitChanges]

\* project_path: the directories a project is opened in.
PlainDir == "/w/app"
ConflictDir == "/w/conflicts"
ProjectDirs == {PlainDir, ConflictDir}

\* The commit identity: user.name and user.email, in the repository's own
\* configuration (.git/config) and in the user's global configuration.  A
\* key that no file sets is "unset".
ConfigKeys == {"user.name", "user.email"}
WorkbenchIdentity ==
    [k \in ConfigKeys |-> IF k = "user.name" THEN "Claude Workbench"
                          ELSE "ai@claude.workbench"]
UserIdentity ==
    [k \in ConfigKeys |-> IF k = "user.name" THEN "Ada" ELSE "ada@example.org"]
NoIdentity == [k \in ConfigKeys |-> "unset"]
\* `git config key`, run in the project directory: the local value wins.
GitConfigGet(r, k) ==
    IF r.git /\ r.config.local[k] # "unset" THEN r.config.local[k]
    ELSE r.config.global[k]
\* `git config key value`, run in the project directory: writes .git/config.
GitConfigSet(r, k, value) ==
    IF r.git THEN [ok |-> TRUE, repo |-> [r EXCEPT !.config.local[k] = value]]
    ELSE [ok |-> FALSE, repo |-> r]

\* The repository ensure_git_repo leaves in an empty directory.
BootstrappedRepo ==
    [git |-> TRUE,
     commits |-> <<[tree |-> EmptyTree, msg |-> InitialCommitMsg]>>,
     index |-> EmptyTree,
     unmerged |-> {},
     wt |-> EmptyTree,
     revert |-> "none",
     stash |-> <<>>,
     config |-> [local |-> WorkbenchIdentity, global |-> NoIdentity],
     dir |-> PlainDir]

----------------------------------------------------------------------------
(* Read-only queries *)

\* `git rev-parse HEAD`: fails outside a repository and before the first
\* commit.
git_current_commit(r) ==
    IF r.git /\ Len(r.commits) > 0 THEN Ok(HeadRef(r)) ELSE Err("rev-parse")

\* `git rev-list --count from..to`: the commits reachable from `to` and not
\* from `from`; fails when a reference does not resolve.
git_commit_count_between(r, from, to) ==
    LET a == RangeSide(r, from)
        b == RangeSide(r, to)
    IN  IF Resolves(r, a) /\ Resolves(r, b)
        THEN Ok(IF b > a THEN b - a ELSE 0)
        ELSE Err("rev-list")

\* What `git log --format=%s from..to` prints: one subject line per commit,
\* newest first.
GitLogLines(r, from, to) ==
    IF to > from THEN Reverse([i \in 1..(to - from) |-> r.commits[from + i].msg])
    ELSE <<>>

\* git_log_between drops the lines that are blank after trimming.
git_log_between(r, from, to) ==
    LET a == RangeSide(r, from)
        b == RangeSide(r, to)
    IN  IF Resolves(r, a) /\ Resolves(r, b)
        THEN Ok(SelectSeq(GitLogLines(r, a, b), LAMBDA line : ~TrimIsEmpty(Chars(line))))
        ELSE Err("log")

----------------------------------------------------------------------------
(* check_reset_safety *)

\* `commits_to_lose <= 5`
SafeThreshold == 5
\* `.take(10)`
SummaryLimit == 10

\* The locals the loop body computes from one subject line.
is_claude(msg) == Contains(Chars(msg), PatClaude) \/ Contains(Chars(msg), PatClaudeCode)
is_codex(msg) == Contains(Chars(msg), PatCodex)
is_gemini(msg) == Contains(Chars(msg), PatGemini)
is_workbench(msg) == Contains(Chars(msg), PatWorkbench)
mentions_merge(msg) == Contains(ToLowercase(Chars(msg)), PatMerge)

\* The same locals, computed once per message.
MsgLocals ==
    [msg \in DOMAIN CharsOf |->
        [is_claude |-> is_claude(msg),
         is_codex |-> is_codex(msg),
         is_gemini |-> is_gemini(msg),
         is_workbench |-> is_workbench(msg),
         mentions_merge |-> mentions_merge(msg)]]

\* is_current_engine with the arms of codex and gemini exchanged; C7 does
\* not hold of it.
is_current_engine_arms_exchanged(current_engine, msg) ==
    CASE current_engine = "claude" ->
            MsgLocals[msg].is_claude \/ MsgLocals[msg].is_workbench
      [] current_engine = "codex" -> MsgLocals[msg].is_gemini
      [] current_engine = "gemini" -> MsgLocals[msg].is_codex
      [] OTHER -> FALSE

is_current_engine(current_engine, msg) ==
    CASE current_engine = "claude" ->
            MsgLocals[msg].is_claude \/ MsgLocals[msg].is_workbench
      [] current_engine = "codex" -> MsgLocals[msg].is_codex
      [] current_engine = "gemini" -> MsgLocals[msg].is_gemini
      [] OTHER -> FALSE

is_any_engine(msg) ==
    \/ MsgLocals[msg].is_claude
    \/ MsgLocals[msg].is_codex
    \/ MsgLocals[msg].is_gemini
    \/ MsgLocals[msg].is_workbench

\* The first `if` of the loop body.
CountedAsOtherEngine(current_engine, msg) ==
    is_any_engine(msg) /\ ~is_current_engine(current_engine, msg)

\* The second `if` of the loop body.
CountedAsUser(msg) ==
    ~is_any_engine(msg) /\ ~MsgLocals[msg].mentions_merge

other_engine_count(current_engine, msgs) ==
    Cardinality({i \in 1..Len(msgs) : CountedAsOtherEngine(current_engine, msgs[i])})

user_commit_count(msgs) ==
    Cardinality({i \in 1..Len(msgs) : CountedAsUser(msgs[i])})

\* safe_to_proceed with `<` for `<=`; C5 does not hold of it.
safe_to_proceed_below_threshold(has_other, has_user, commits_to_lose) ==
    ~has_other /\ ~has_user /\ commits_to_lose < SafeThreshold

\* safe_to_proceed that lets a range too long for the summary pass; C6 does
\* not hold of it.
safe_to_proceed_or_beyond_summary(has_other, has_user, commits_to_lose) ==
    /\ ~has_other
    /\ ~has_user
    /\ commits_to_lose <= SafeThreshold \/ commits_to_lose > SummaryLimit

safe_to_proceed(has_other, has_user, commits_to_lose) ==
    ~has_other /\ ~has_user /\ commits_to_lose <= SafeThreshold

\* The warning with the large-rollback part pushed whenever more than 5
\* commits are lost, whatever the flags; C9 does not hold of it.
WarningPartsAlwaysLargeRollback(has_other, has_user, n_other, n_user, commits_to_lose) ==
    (IF has_other THEN <<[part |-> "other_engine", n |-> n_other]>> ELSE <<>>)
    \o (IF has_user THEN <<[part |-> "user", n |-> n_user]>> ELSE <<>>)
    \o (IF commits_to_lose > SafeThreshold
        THEN <<[part |-> "large_rollback", n |-> commits_to_lose]>>
        ELSE <<>>)

\* The parts pushed on `warnings`, in order; each stands for its formatted
\* sentence and keeps the count the sentence prints.
WarningParts(has_other, has_user, n_other, n_user, commits_to_lose) ==
    (IF has_other THEN <<[part |-> "other_engine", n |-> n_other]>> ELSE <<>>)
    \o (IF has_user THEN <<[part |-> "user", n |-> n_user]>> ELSE <<>>)
    \o (IF commits_to_lose > SafeThreshold /\ ~has_other /\ ~has_user
        THEN <<[part |-> "large_rollback", n |-> commits_to_lose]>>
        ELSE <<>>)

\* Option<String>: None, or Some(warnings.join(..)).
NoWarning == [some |-> FALSE, parts |-> <<>>]
SomeWarning(parts) == [some |-> TRUE, parts |-> parts]

\* commits_summary.into_iter().take(10).collect()
SummaryForDisplay(msgs) == Take(msgs, SummaryLimit)

ResetSafetyInfo(commits_to_lose, current_engine, msgs) ==
    LET n_other == other_engine_count(current_engine, msgs)
        n_user == user_commit_count(msgs)
        has_other == n_other > 0
        has_user == n_user > 0
        safe == safe_to_proceed(has_other, has_user, commits_to_lose)
    IN  [commits_to_lose |-> commits_to_lose,
         has_other_engine_commits |-> has_other,
         has_user_commits |-> has_user,
         commits_summary |-> SummaryForDisplay(msgs),
         safe_to_proceed |-> safe,
         warning |-> IF ~safe
                     THEN SomeWarning(WarningParts(has_other, has_user, n_other,
                                                   n_user, commits_to_lose))
                     ELSE NoWarning]

\* The report for target == HEAD.
NothingToLose ==
    [commits_to_lose |-> 0,
     has_other_engine_commits |-> FALSE,
     has_user_commits |-> FALSE,
     commits_summary |-> <<>>,
     safe_to_proceed |-> TRUE,
     warning |-> NoWarning]

\* check_reset_safety without the return for a target equal to HEAD; C11
\* does not hold of it.
check_reset_safety_no_short_circuit(r, target_commit, current_engine) ==
    LET current_head == git_current_commit(r) IN
    IF ~current_head.ok THEN [ret |-> current_head, cmds |-> <<"rev-parse">>]
    ELSE LET count == git_commit_count_between(r, target_commit, current_head.val)
             log == git_log_between(r, target_commit, current_head.val)
         IN  IF ~count.ok THEN [ret |-> count, cmds |-> <<"rev-parse", "rev-list">>]
             ELSE IF ~log.ok
             THEN [ret |-> log, cmds |-> <<"rev-parse", "rev-list", "log">>]
             ELSE [ret |-> Ok(ResetSafetyInfo(count.val, current_engine, log.val)),
                   cmds |-> <<"rev-parse", "rev-list", "log">>]

\* The value returned (ret) and the git commands issued on the way (cmds).
check_reset_safety(r, target_commit, current_engine) ==
    LET current_head == git_current_commit(r) IN
    IF ~current_head.ok THEN [ret |-> current_head, cmds |-> <<"rev-parse">>]
    ELSE IF current_head.val = target_commit
    THEN [ret |-> Ok(NothingToLose), cmds |-> <<"rev-parse">>]
    ELSE LET count == git_commit_count_between(r, target_commit, current_head.val)
             log == git_log_between(r, target_commit, current_head.val)
         IN  IF ~count.ok THEN [ret |-> count, cmds |-> <<"rev-parse", "rev-list">>]
             ELSE IF ~log.ok
             THEN [ret |-> log, cmds |-> <<"rev-parse", "rev-list", "log">>]
             ELSE [ret |-> Ok(ResetSafetyInfo(count.val, current_engine, log.val)),
                   cmds |-> <<"rev-parse", "rev-list", "log">>]

----------------------------------------------------------------------------
(* The safety specification: a history of commits by the engines and by    *)
(* their users, and calls of check_reset_safety on it.                     *)

SafetyInit ==
    /\ repo = BootstrappedRepo
    /\ op = "init"
    /\ args = <<>>
    /\ result = NoResult
    /\ cmds = <<>>
    /\ calls = NoCalls

\* An engine or a user records a commit with the given subject.
RecordCommit(subject) ==
    /\ Len(repo.commits) < MaxLog
    /\ \/ Len(repo.commits) - 1 < MaxVaried
       \/ subject = repo.commits[Len(repo.commits)].msg
    /\ repo' = [repo EXCEPT !.commits =
                    Append(@, [tree |-> HeadTree(repo), msg |-> subject])]
    /\ op' = "commit"
    /\ args' = <<>>
    /\ result' = NoResult
    /\ cmds' = <<>>
    /\ calls' = calls

\* A call changes nothing in the repository, so a call made right after
\* another reaches no state that the same call made in its place does not
\* reach: the model makes calls after commits only.
CheckResetSafety(target_commit, current_engine) ==
    LET out == check_reset_safety(repo, target_commit, current_engine) IN
    /\ op # "check_reset_safety"
    /\ op' = "check_reset_safety"
    /\ args' = [target_commit |-> target_commit, current_engine |-> current_engine]
    /\ result' = out.ret
    /\ cmds' = out.cmds
    /\ UNCHANGED <<repo, calls>>

TargetRefs(r) == {t \in 0..HeadRef(r) : t <= MaxTarget \/ t = HeadRef(r)}

SafetyNext ==
    \/ \E subject \in Subjects : RecordCommit(subject)
    \/ \E target_commit \in TargetRefs(repo), current_engine \in Engines :
          CheckResetSafety(target_commit, current_engine)

SpecSafety == SafetyInit /\ [][SafetyNext]_vars

----------------------------------------------------------------------------
(* The git commands the code runs.  A repository is a record:              *)
(*   git       whether project_path holds a .git directory                 *)
(*   commits   the history, oldest first: the tree and message of each     *)
(*   index     the staged tree                                             *)
(*   unmerged  the files the index holds unmerged (conflicted) entries for *)
(*   wt        the working tree, untracked files included                  *)
(*   revert    "none", "REVERT_HEAD" (a revert applied and not yet         *)
(*             committed) or "sequencer" (a revert sequence interrupted)   *)
(* Each command yields [ok, repo] and, where the code reads it, the output *)

\* `git status --porcelain`: one line per path that differs between HEAD and
\* the index or between the index and the working tree, untracked paths
\* included.
StatusLines(r) ==
    {f \in Files : \/ r.index[f] # HeadTree(r)[f]
                   \/ r.wt[f] # r.index[f]
                   \/ f \in r.unmerged}

GitStatusPorcelain(r) ==
    IF r.git THEN [ok |-> TRUE, stdout |-> StatusLines(r)]
    ELSE [ok |-> FALSE, stdout |-> {}]

\* `git status` failing for a reason outside the repository's content: it
\* prints nothing on stdout.
FailedStatus == [ok |-> FALSE, stdout |-> {}]

\* What git writes on stderr when `git revert --no-commit` fails, by kind of
\* failure.  The code reads this text and nothing else of the failure.
\* a commit of the range does not apply cleanly (the CONFLICT lines themselves
\* go to stdout)
TextCouldNotRevert ==
    <<"e", "r", "r", "o", "r", ":", " ", "c", "o", "u", "l", "d", " ", "n",
      "o", "t", " ", "r", "e", "v", "e", "r", "t", ";", " ", "h", "i", "n",
      "t", ":", " ", "a", "f", "t", "e", "r", " ", "r", "e", "s", "o", "l",
      "v", "i", "n", "g", " ", "t", "h", "e", " ", "c", "o", "n", "f", "l",
      "i", "c", "t", "s", ",", " ", "m", "a", "r", "k", " ", "t", "h", "e",
      " ", "c", "o", "r", "r", "e", "c", "t", "e", "d", " ", "p", "a", "t",
      "h", "s", " ", "w", "i", "t", "h", " ", "'", "g", "i", "t", " ", "a",
      "d", "d", " ", "<", "p", "a", "t", "h", "s", ">", "'", " ", "o", "r",
      " ", "'", "g", "i", "t", " ", "r", "m", " ", "<", "p", "a", "t", "h",
      "s", ">", "'">>
\* local changes are in the way; the paths follow
TextWouldBeOverwritten ==
    <<"e", "r", "r", "o", "r", ":", " ", "Y", "o", "u", "r", " ", "l", "o",
      "c", "a", "l", " ", "c", "h", "a", "n", "g", "e", "s", " ", "t", "o",
      " ", "t", "h", "e", " ", "f", "o", "l", "l", "o", "w", "i", "n", "g",
      " ", "f", "i", "l", "e", "s", " ", "w", "o", "u", "l", "d", " ", "b",
      "e", " ", "o", "v", "e", "r", "w", "r", "i", "t", "t", "e", "n", " ",
      "b", "y", " ", "m", "e", "r", "g", "e", ":", " ">>
\* a reference does not resolve
TextBadRevision ==
    <<"f", "a", "t", "a", "l", ":", " ", "b", "a", "d", " ", "r", "e", "v",
      "i", "s", "i", "o", "n">>
\* the range holds no commit
TextEmptyCommitSet ==
    <<"e", "r", "r", "o", "r", ":", " ", "e", "m", "p", "t", "y", " ", "c",
      "o", "m", "m", "i", "t", " ", "s", "e", "t", " ", "p", "a", "s", "s",
      "e", "d">>
\* a revert sequence was left behind
TextRevertInProgress ==
    <<"e", "r", "r", "o", "r", ":", " ", "a", " ", "r", "e", "v", "e", "r",
      "t", " ", "i", "s", " ", "a", "l", "r", "e", "a", "d", "y", " ", "i",
      "n", " ", "p", "r", "o", "g", "r", "e", "s", "s">>
\* the index holds unmerged entries
TextUnmergedFiles ==
    <<"e", "r", "r", "o", "r", ":", " ", "R", "e", "v", "e", "r", "t", "i",
      "n", "g", " ", "i", "s", " ", "n", "o", "t", " ", "p", "o", "s", "s",
      "i", "b", "l", "e", " ", "b", "e", "c", "a", "u", "s", "e", " ", "y",
      "o", "u", " ", "h", "a", "v", "e", " ", "u", "n", "m", "e", "r", "g",
      "e", "d", " ", "f", "i", "l", "e", "s", ".">>
\* another git process holds the index lock: the text names the index file
\* by its absolute path, between these two parts
TextUnableToCreate ==
    <<"f", "a", "t", "a", "l", ":", " ", "U", "n", "a", "b", "l", "e", " ",
      "t", "o", " ", "c", "r", "e", "a", "t", "e", " ", "'">>
TextLockFileExists ==
    <<"/", ".", "g", "i", "t", "/", "i", "n", "d", "e", "x", ".", "l", "o",
      "c", "k", "'", ":", " ", "F", "i", "l", "e", " ", "e", "x", "i", "s",
      "t", "s", ".">>

\* The directories, as git prints them.
DirChars ==
    (PlainDir :> <<"/", "w", "/", "a", "p", "p">>)
    @@ (ConflictDir :> <<"/", "w", "/", "c", "o", "n", "f", "l", "i", "c", "t", "s">>)

\* The paths of the files, as git prints them.
PathChars ==
    [a |-> <<"c", "o", "n", "f", "l", "i", "c", "t", "s", ".", "m", "d">>,
     b |-> <<"b", ".", "r", "s">>]

StderrKinds ==
    {"could_not_revert", "would_be_overwritten", "bad_revision",
     "empty_commit_set", "revert_in_progress", "unmerged_files"}

\* A stderr: the kind of failure, the paths of files the text names and the
\* project directory it names.
Stderr(kind, paths) == [kind |-> kind, paths |-> paths, dir |-> "none"]
NoStderr == Stderr("none", {})
LockedStderr(dir) == [kind |-> "index_locked", paths |-> {}, dir |-> dir]

StderrChars(e) ==
    (CASE e.kind = "could_not_revert" -> TextCouldNotRevert
       [] e.kind = "would_be_overwritten" -> TextWouldBeOverwritten
       [] e.kind = "bad_revision" -> TextBadRevision
       [] e.kind = "empty_commit_set" -> TextEmptyCommitSet
       [] e.kind = "revert_in_progress" -> TextRevertInProgress
       [] e.kind = "unmerged_files" -> TextUnmergedFiles
       [] e.kind = "index_locked" ->
              TextUnableToCreate \o DirChars[e.dir] \o TextLockFileExists
       [] OTHER -> <<>>)
    \o (IF "a" \in e.paths THEN PathChars["a"] \o <<" ">> ELSE <<>>)
    \o (IF "b" \in e.paths THEN PathChars["b"] ELSE <<>>)

\* `stderr.contains("conflict") || stderr.contains("CONFLICT")`
stderr_says_conflict(e) ==
    \/ Contains(StderrChars(e), PatConflict)
    \/ Contains(StderrChars(e), PatConflictUpper)

\* The same, tabulated once for the texts git can write.
RECURSIVE StderrTable(_)
StderrTable(texts) ==
    IF texts = {} THEN <<>>
    ELSE LET e == CHOOSE x \in texts : TRUE
         IN  (e :> stderr_says_conflict(e)) @@ StderrTable(texts \ {e})

StderrSaysConflict ==
    StderrTable([kind : StderrKinds \cup {"none"}, paths : SUBSET {"a", "b"},
                 dir : {"none"}]
                \cup {LockedStderr(d) : d \in ProjectDirs})

\* `git add -u` in the place of `git add -A`: untracked files are not staged;
\* C15 does not hold of it.
GitAddTrackedOnly(r) ==
    IF r.git
    THEN [ok |-> TRUE, stderr |-> NoStderr,
          repo |-> [r EXCEPT !.index = [f \in Files |->
                                            IF r.index[f] = "absent" THEN "absent"
                                            ELSE r.wt[f]],
                             !.unmerged = {}]]
    ELSE [ok |-> FALSE, stderr |-> Stderr("not_a_repository", {}), repo |-> r]

\* `git add -A`: the index takes the working tree; unmerged entries are
\* resolved to what the working tree holds.
GitAddAll(r) ==
    IF r.git
    THEN [ok |-> TRUE, stderr |-> NoStderr,
          repo |-> [r EXCEPT !.index = r.wt, !.unmerged = {}]]
    ELSE [ok |-> FALSE, stderr |-> Stderr("not_a_repository", {}), repo |-> r]

\* `git commit [--allow-empty] -m message`: records the index.  It refuses
\* unmerged entries and, without --allow-empty, an index equal to HEAD.
GitCommit(r, message, allow_empty) ==
    IF /\ r.git
       /\ r.unmerged = {}
       /\ allow_empty \/ r.index # HeadTree(r)
    THEN [ok |-> TRUE, stderr |-> NoStderr,
          repo |-> [r EXCEPT !.commits = Append(@, [tree |-> r.index, msg |-> message]),
                             !.revert = IF @ = "REVERT_HEAD" THEN "none" ELSE @]]
    ELSE [ok |-> FALSE, stderr |-> Stderr("nothing_to_commit", {}), repo |-> r]

\* Reverting one commit c on top of the index: a three-way merge per file
\* with the commit as base, its parent as the side to take, and the index
\* as the side to keep.
RevertCommit(r, c) ==
    LET base == TreeAt(r, c)
        theirs == TreeAt(r, c - 1)
        touched == {f \in Files : base[f] # theirs[f] /\ r.index[f] # theirs[f]}
        conflicts == {f \in touched : r.index[f] # base[f]}
        merged == [f \in Files |-> IF f \in touched \ conflicts THEN theirs[f]
                                   ELSE r.index[f]]
        \* a file changed since it was staged, or an untracked file where the
        \* revert creates one; a file deleted from the working tree is no
        \* obstacle
        in_the_way == {f \in touched : r.wt[f] # r.index[f] /\ r.wt[f] # "absent"}
    IN  IF in_the_way # {}
        THEN \* local changes would be overwritten
             [outcome |-> "error",
              stderr |-> Stderr("would_be_overwritten", in_the_way),
              repo |-> [r EXCEPT !.revert = "sequencer"]]
        ELSE IF conflicts # {}
        THEN [outcome |-> "conflict",
              stderr |-> Stderr("could_not_revert", {}),
              repo |-> [r EXCEPT
                  !.index = merged,
                  !.wt = [f \in Files |-> IF f \in conflicts THEN "conflict"
                                          ELSE IF f \in touched THEN theirs[f]
                                          ELSE r.wt[f]],
                  !.unmerged = conflicts,
                  !.revert = "sequencer"]]
        ELSE [outcome |-> "ok",
              stderr |-> NoStderr,
              repo |-> [r EXCEPT
                  !.index = merged,
                  !.wt = [f \in Files |-> IF f \in touched THEN theirs[f] ELSE r.wt[f]],
                  !.revert = "REVERT_HEAD"]]

\* The commits c, c-1, .., before+1 reverted in that order, stopping at the
\* first that does not apply.
RECURSIVE RevertCommits(_, _, _)
RevertCommits(r, c, before) ==
    IF c <= before THEN [outcome |-> "ok", stderr |-> NoStderr, repo |-> r]
    ELSE LET step == RevertCommit(r, c)
         IN  IF step.outcome # "ok" THEN step
             ELSE RevertCommits(step.repo, c - 1, before)

\* `git revert --no-commit before..after`: whether it succeeded, what it
\* wrote on stderr, and the repository it left.
GitRevertNoCommit(r, commit_before, commit_after) ==
    LET refused(kind) == [ok |-> FALSE, stderr |-> Stderr(kind, {}), repo |-> r]
        before == RangeSide(r, commit_before)
        after == RangeSide(r, commit_after)
    IN
    IF ~Resolves(r, before) \/ ~Resolves(r, after) THEN refused("bad_revision")
    ELSE IF after <= before THEN refused("empty_commit_set")
    ELSE IF r.revert = "sequencer" THEN refused("revert_in_progress")
    ELSE IF r.unmerged # {} THEN refused("unmerged_files")
    ELSE LET done == RevertCommits(r, after, before)
         IN  [ok |-> done.outcome = "ok",
              stderr |-> done.stderr,
              repo |-> done.repo]

\* `git revert --abort`: `git reset --merge` to the commit the sequence
\* started from, which keeps a file whose working-tree content was never
\* staged and refuses when a file is staged and then changed again.
GitRevertAbort(r) ==
    LET head == HeadTree(r)
        staged == {f \in Files : f \in r.unmerged \/ r.index[f] # head[f]}
    IN  IF \/ ~r.git
           \/ r.revert = "none"
           \/ \E f \in staged \ r.unmerged :
                 r.wt[f] # r.index[f] /\ r.wt[f] # "absent"
        THEN [ok |-> FALSE, repo |-> r]
        ELSE [ok |-> TRUE,
              repo |-> [r EXCEPT
                  !.index = head,
                  !.wt = [f \in Files |-> IF f \in staged THEN head[f] ELSE r.wt[f]],
                  !.unmerged = {},
                  !.revert = "none"]]

\* A command that fails for a reason outside the repository's content: the
\* index lock is held by another git process.  Nothing changes.
Failed(r) == [ok |-> FALSE, stderr |-> LockedStderr(r.dir), repo |-> r]
\* The command found the index locked.
MetLock(output) == ~output.ok /\ output.stderr.kind = "index_locked"

----------------------------------------------------------------------------
(* The operations that change the repository.  Each is the set of its      *)
(* outcomes [repo, ret, cmds]: one per way the commands it runs can end.   *)
(* git_revert_range and git_commit_changes have a fourth field, locked:    *)
(* the command of the call that found the index locked, or "none"; and     *)
(* git_revert_range a fifth, count: what its commit-count query returned.  *)
(* Which of its two queries fail for a reason outside the repository's     *)
(* content is an input of git_revert_range: failing_queries.               *)

\* Option<String> for a commit hash.
None == [some |-> FALSE, ref |-> 0]
Some(ref) == [some |-> TRUE, ref |-> ref]

RevertResult(success, commits_reverted, new_commit, message, has_conflicts) ==
    [success |-> success,
     commits_reverted |-> commits_reverted,
     new_commit |-> new_commit,
     message |-> message,
     has_conflicts |-> has_conflicts]

\* The queries of git_revert_range: the commit count and the new HEAD.
Queries == {"rev-list", "rev-parse"}
\* `git rev-parse HEAD` failing for a reason outside the repository's content.
FailedRevParse == Err("rev-parse")

\* git_revert_range once `git revert --no-commit` succeeded: the status
\* check, the commit and the lookup of the new HEAD.
CommitStagedRevert(r, count, message, issued, failing_queries) ==
    UNION {
        LET has_changes == status.stdout # {}    \* the exit status is not read
            \* .unwrap_or(1)
            commit_count == IF count.ok THEN count.val ELSE 1
        IN  IF ~has_changes
            THEN {[repo |-> r,
                   ret |-> Ok(RevertResult(TRUE, commit_count, None,
                                           "already_at_target", FALSE)),
                   cmds |-> issued \o <<"status">>,
                   locked |-> "none",
                   count |-> count]}
            ELSE {IF ~c.ok
                  THEN [repo |-> c.repo,
                        ret |-> Err("Failed to commit revert"),
                        cmds |-> issued \o <<"status", "commit">>,
                        locked |-> IF MetLock(c) THEN "commit" ELSE "none",
                        count |-> count]
                  ELSE LET \* git_current_commit(project_path).ok()
                           head == IF "rev-parse" \in failing_queries
                                   THEN FailedRevParse
                                   ELSE git_current_commit(c.repo)
                       IN  [repo |-> c.repo,
                            ret |-> Ok(RevertResult(TRUE, commit_count,
                                                    IF head.ok THEN Some(head.val) ELSE None,
                                                    "reverted", FALSE)),
                            cmds |-> issued \o <<"status", "commit", "rev-parse">>,
                            locked |-> "none",
                            count |-> count]
                  : c \in {GitCommit(r, message, FALSE), Failed(r)}}
        : status \in {GitStatusPorcelain(r), FailedStatus}}

\* git_revert_range once `git revert --no-commit` failed: the abort whose
\* outcome is dropped, or the error.
GiveUpRevert(revert_output, count, issued) ==
    IF StderrSaysConflict[revert_output.stderr]
    THEN {[repo |-> aborted.repo,
           ret |-> Ok(RevertResult(FALSE, 0, None, "conflict", TRUE)),
           cmds |-> issued \o <<"revert --abort">>,
           locked |-> IF MetLock(revert_output) THEN "revert --no-commit" ELSE "none",
           count |-> count]
          : aborted \in {GitRevertAbort(revert_output.repo), Failed(revert_output.repo)}}
    ELSE {[repo |-> revert_output.repo,
           ret |-> Err("Git revert failed"),
           cmds |-> issued,
           locked |-> IF MetLock(revert_output) THEN "revert --no-commit" ELSE "none",
           count |-> count]}

\* `git rev-list --count` failing for a reason outside the repository's
\* content, or printing what is no number.
FailedCount == Err("rev-list")

\* git_revert_range returning the failure of its commit-count query; C23 does
\* not hold of it.
git_revert_range_count_required(r, commit_before, commit_after, message, failing_queries) ==
    IF commit_before = commit_after
    THEN {[repo |-> r,
           ret |-> Ok(RevertResult(TRUE, 0, None, "nothing_to_revert", FALSE)),
           cmds |-> <<>>,
           locked |-> "none",
           count |-> NoResult]}
    ELSE LET issued == <<"rev-list", "revert --no-commit">>
         IN  UNION {
                 IF ~count.ok
                 THEN {[repo |-> r, ret |-> count, cmds |-> <<"rev-list">>,
                        locked |-> "none", count |-> count]}
                 ELSE UNION {IF ~revert_output.ok
                             THEN GiveUpRevert(revert_output, count, issued)
                             ELSE CommitStagedRevert(revert_output.repo, count, message,
                                                     issued, failing_queries)
                             : revert_output \in
                                   {GitRevertNoCommit(r, commit_before, commit_after),
                                    Failed(r)}}
                 : count \in {IF "rev-list" \in failing_queries THEN FailedCount
                              ELSE git_commit_count_between(r, commit_before,
                                                            commit_after)}}

\* git_revert_range without the early return on an empty range; C4 does not
\* hold of it.
git_revert_range_no_early_return(r, commit_before, commit_after, message, failing_queries) ==
    LET issued == <<"rev-list", "revert --no-commit">>
    IN  UNION {
            UNION {IF ~revert_output.ok
                   THEN GiveUpRevert(revert_output, count, issued)
                   ELSE CommitStagedRevert(revert_output.repo, count, message, issued,
                                           failing_queries)
                   : revert_output \in
                         {GitRevertNoCommit(r, commit_before, commit_after), Failed(r)}}
            : count \in {IF "rev-list" \in failing_queries THEN FailedCount
                         ELSE git_commit_count_between(r, commit_before, commit_after)}}

git_revert_range(r, commit_before, commit_after, message, failing_queries) ==
    IF commit_before = commit_after
    THEN {[repo |-> r,
           ret |-> Ok(RevertResult(TRUE, 0, None, "nothing_to_revert", FALSE)),
           cmds |-> <<>>,
           locked |-> "none",
           count |-> NoResult]}
    ELSE LET issued == <<"rev-list", "revert --no-commit">>
         IN  UNION {
                 UNION {IF ~revert_output.ok
                        THEN GiveUpRevert(revert_output, count, issued)
                        ELSE CommitStagedRevert(revert_output.repo, count, message,
                                                issued, failing_queries)
                        : revert_output \in
                              {GitRevertNoCommit(r, commit_before, commit_after),
                               Failed(r)}}
                 : count \in {IF "rev-list" \in failing_queries THEN FailedCount
                              ELSE git_commit_count_between(r, commit_before,
                                                            commit_after)}}

\* git_commit_changes without the return on an empty status; C14 does not
\* hold of it.
git_commit_changes_no_clean_check(r, message) ==
    UNION {
        IF ~status.ok
        THEN {[repo |-> r, ret |-> Err("Git status failed"), cmds |-> <<"status">>,
               locked |-> "none"]}
        ELSE UNION {
            IF ~added.ok
            THEN {[repo |-> added.repo, ret |-> Err("Git add failed"),
                   cmds |-> <<"status", "add">>,
                   locked |-> IF MetLock(added) THEN "add" ELSE "none"]}
            ELSE {[repo |-> c.repo,
                   ret |-> IF c.ok THEN Ok(TRUE) ELSE Err("Git commit failed"),
                   cmds |-> <<"status", "add", "commit">>,
                   locked |-> IF MetLock(c) THEN "commit" ELSE "none"]
                  : c \in {GitCommit(added.repo, message, FALSE), Failed(added.repo)}}
            : added \in {GitAddAll(r), Failed(r)}}
        : status \in {GitStatusPorcelain(r), FailedStatus}}

git_commit_changes(r, message) ==
    UNION {
        IF ~status.ok
        THEN {[repo |-> r, ret |-> Err("Git status failed"), cmds |-> <<"status">>,
               locked |-> "none"]}
        ELSE IF status.stdout = {}
        THEN {[repo |-> r, ret |-> Ok(FALSE), cmds |-> <<"status">>,
               locked |-> "none"]}
        ELSE UNION {
            IF ~added.ok
            THEN {[repo |-> added.repo, ret |-> Err("Git add failed"),
                   cmds |-> <<"status", "add">>,
                   locked |-> IF MetLock(added) THEN "add" ELSE "none"]}
            ELSE {[repo |-> c.repo,
                   ret |-> IF c.ok THEN Ok(TRUE) ELSE Err("Git commit failed"),
                   cmds |-> <<"status", "add", "commit">>,
                   locked |-> IF MetLock(c) THEN "commit" ELSE "none"]
                  : c \in {GitCommit(added.repo, message, FALSE), Failed(added.repo)}}
            : added \in {GitAddAll(r), Failed(r)}}
        : status \in {GitStatusPorcelain(r), FailedStatus}}

\* `git stash save -u message`: the index, the working tree and the untracked
\* files go on top of the stash, and index and working tree go back to HEAD.
\* It refuses a repository without a commit and an index with unmerged
\* entries.
GitStashSave(r, message) ==
    IF /\ r.git
       /\ git_current_commit(r).ok
       /\ r.unmerged = {}
    THEN [ok |-> TRUE,
          repo |-> [r EXCEPT !.stash = <<[index |-> r.index, wt |-> r.wt,
                                          msg |-> message]>> \o @,
                             !.index = HeadTree(r),
                             !.wt = HeadTree(r)]]
    ELSE [ok |-> FALSE, repo |-> r]

\* git_stash_save returning the failure of the stash command to its caller;
\* C16 does not hold of it.
git_stash_save_failure_returned(r, message) ==
    LET status == GitStatusPorcelain(r)
    IN  IF status.stdout = {}
        THEN {[repo |-> r, ret |-> Ok("unit"), cmds |-> <<"status">>]}
        ELSE {[repo |-> st.repo,
               ret |-> IF st.ok THEN Ok("unit") ELSE Err("Git stash failed"),
               cmds |-> <<"status", "stash">>]
              : st \in {GitStashSave(r, message), Failed(r)}}

\* The exit status of `git status` is not looked at, only its output; the
\* exit status of `git stash` is logged and not returned.
git_stash_save(r, message) ==
    UNION {
        IF status.stdout = {}
        THEN {[repo |-> r, ret |-> Ok("unit"), cmds |-> <<"status">>]}
        ELSE {[repo |-> st.repo, ret |-> Ok("unit"), cmds |-> <<"status", "stash">>]
              : st \in {GitStashSave(r, message), Failed(r)}}
        : status \in {GitStatusPorcelain(r), FailedStatus}}

\* `git init`
GitInit(r) == [ok |-> TRUE, repo |-> [r EXCEPT !.git = TRUE]]

\* ensure_git_repo without the return on a repository that has commits; C17
\* does not hold of it.
ensure_git_repo_no_early_return(r) ==
    LET has_git_dir == r.git
        probed == IF has_git_dir THEN <<"rev-parse">> ELSE <<>>
    IN  UNION {
            IF ~init.ok
            THEN {[repo |-> init.repo, ret |-> Err("Git init failed"),
                   cmds |-> probed \o <<"init">>]}
            ELSE LET issued == probed \o (IF has_git_dir THEN <<>> ELSE <<"init">>)
                               \o <<"config", "config", "add", "commit">>
                     \* both values are written, whatever was configured
                     named == GitConfigSet(init.repo, "user.name",
                                           WorkbenchIdentity["user.name"]).repo
                     configured == GitConfigSet(named, "user.email",
                                                WorkbenchIdentity["user.email"]).repo
                 IN  {[repo |-> c.repo,
                       ret |-> IF c.ok THEN Ok("unit")
                               ELSE Err("Failed to create initial commit"),
                       cmds |-> issued]
                      : c \in UNION {
                            {GitCommit(added.repo, InitialCommitMsg, TRUE),
                             Failed(added.repo)}
                            \* a failure of `add` is logged and no more
                            : added \in {GitAddAll(configured), Failed(configured)}}}
            : init \in IF has_git_dir THEN {[ok |-> TRUE, repo |-> r]}
                       ELSE {GitInit(r), Failed(r)}}

ensure_git_repo(r) ==
    LET has_git_dir == r.git
        has_commits == has_git_dir /\ git_current_commit(r).ok
        probed == IF has_git_dir THEN <<"rev-parse">> ELSE <<>>
    IN  IF has_commits THEN {[repo |-> r, ret |-> Ok("unit"), cmds |-> probed]}
        ELSE UNION {
            IF ~init.ok
            THEN {[repo |-> init.repo, ret |-> Err("Git init failed"),
                   cmds |-> probed \o <<"init">>]}
            ELSE LET issued == probed \o (IF has_git_dir THEN <<>> ELSE <<"init">>)
                               \o <<"config", "config", "add", "commit">>
                     \* both values are written, whatever was configured
                     named == GitConfigSet(init.repo, "user.name",
                                           WorkbenchIdentity["user.name"]).repo
                     configured == GitConfigSet(named, "user.email",
                                                WorkbenchIdentity["user.email"]).repo
                 IN  {[repo |-> c.repo,
                       ret |-> IF c.ok THEN Ok("unit")
                               ELSE Err("Failed to create initial commit"),
                       cmds |-> issued]
                      : c \in UNION {
                            {GitCommit(added.repo, InitialCommitMsg, TRUE),
                             Failed(added.repo)}
                            \* a failure of `add` is logged and no more
                            : added \in {GitAddAll(configured), Failed(configured)}}}
            : init \in IF has_git_dir THEN {[ok |-> TRUE, repo |-> r]}
                       ELSE {GitInit(r), Failed(r)}}

----------------------------------------------------------------------------
(* The specification of the revert engine: files are edited and staged,    *)
(* the repository is bootstrapped, checkpoints are committed and ranges of *)
(* them reverted.                                                          *)

\* A behaviour starts in a directory that is no repository; ensure_git_repo
\* makes it one.
NotARepository ==
    [git |-> FALSE, commits |-> <<>>, index |-> EmptyTree, unmerged |-> {},
     wt |-> EmptyTree, revert |-> "none", stash |-> <<>>,
     config |-> [local |-> NoIdentity, global |-> NoIdentity],
     dir |-> PlainDir]

Init ==
    /\ repo = NotARepository
    /\ op = "init"
    /\ args = <<>>
    /\ result = NoResult
    /\ cmds = <<>>
    /\ calls = NoCalls

\* An engine or a user gives a file of the working tree a new content.  The
\* model edits and stages files of a repository that has its first commit
\* and no revert in progress.
EditFile(f, v) ==
    /\ Len(repo.commits) \in 1..(MaxHist - 1)
    /\ repo.revert = "none"
    /\ repo.wt[f] # v
    /\ repo' = [repo EXCEPT !.wt[f] = v]
    /\ op' = "user"
    /\ args' = <<>>
    /\ result' = NoResult
    /\ cmds' = <<>>
    /\ calls' = calls

\* A user stages a file (`git add f`).
StageFile(f) ==
    /\ Len(repo.commits) \in 1..(MaxHist - 1)
    /\ repo.revert = "none"
    /\ repo.git
    /\ repo.index[f] # repo.wt[f] \/ f \in repo.unmerged
    /\ repo' = [repo EXCEPT !.index[f] = repo.wt[f], !.unmerged = @ \ {f}]
    /\ op' = "user"
    /\ args' = <<>>
    /\ result' = NoResult
    /\ cmds' = <<>>
    /\ calls' = calls

EnsureGitRepo ==
    \E out \in ensure_git_repo(repo) :
        /\ repo' = out.repo
        /\ op' = "ensure_git_repo"
        /\ args' = <<>>
        /\ result' = out.ret
        /\ cmds' = out.cmds
        /\ calls' = calls

GitCommitChanges(message) ==
    /\ Len(repo.commits) < MaxHist
    /\ \E out \in git_commit_changes(repo, message) :
        /\ repo' = out.repo
        /\ op' = "git_commit_changes"
        /\ args' = [message |-> message, locked |-> out.locked]
        /\ result' = out.ret
        /\ cmds' = out.cmds
        /\ calls' = calls

GitRevertRange(commit_before, commit_after, message, failing_queries) ==
    /\ Len(repo.commits) < MaxHist
    /\ \E out \in git_revert_range(repo, commit_before, commit_after, message,
                                   failing_queries) :
        /\ repo' = out.repo
        /\ op' = "git_revert_range"
        /\ args' = [commit_before |-> commit_before,
                    commit_after |-> commit_after,
                    message |-> message,
                    locked |-> out.locked,
                    count |-> out.count]
        /\ result' = out.ret
        /\ cmds' = out.cmds
        /\ calls' = calls

GitStashSaveCall(message) ==
    /\ \E out \in git_stash_save(repo, message) :
        /\ repo' = out.repo
        /\ op' = "git_stash_save"
        /\ args' = [message |-> message]
        /\ result' = out.ret
        /\ cmds' = out.cmds
        /\ calls' = calls

\* The ranges git_revert_range is called with: every range of the history,
\* the empty range at HEAD and at an unknown hash, a range from an unknown
\* hash and a range given backwards.
RangeInputs(r) ==
    {p \in (0..HeadRef(r)) \X (0..HeadRef(r)) :
        \/ 1 <= p[1] /\ p[1] < p[2]
        \/ p[1] = p[2] /\ p[1] \in {0, HeadRef(r)}
        \/ p[1] = 0 /\ p[2] = HeadRef(r)
        \/ p[1] = HeadRef(r) /\ p[2] = 1}

Next ==
    \/ EnsureGitRepo
    \/ \E f \in Files : \E v \in Versions[f] : EditFile(f, v)
    \/ \E f \in Files : StageFile(f)
    \/ GitCommitChanges(CheckpointMsg)
    \/ \E range \in RangeInputs(repo) : GitRevertRange(range[1], range[2], RevertMsg, {})

Spec == Init /\ [][Next]_vars

\* The checkpoint committer alone, with its stash: files are edited and
\* staged, committed by git_commit_changes and shelved by git_stash_save.
\* The repository is followed up to its first stash entry; after it only
\* git_stash_save is called again.
NothingStashed == repo.stash = <<>>

StashNext ==
    \/ NothingStashed /\ EnsureGitRepo
    \/ NothingStashed /\ \E f \in Files : \E v \in Versions[f] : EditFile(f, v)
    \/ NothingStashed /\ \E f \in Files : StageFile(f)
    \/ NothingStashed /\ GitCommitChanges(CheckpointMsg)
    \/ GitStashSaveCall(StashMsg)

SpecStash == Init /\ [][StashNext]_vars

\* The bootstrap alone: ensure_git_repo is called, once and again, on a
\* project directory that has no history.  The directory holds any files; it
\* is no repository, or a repository without a commit in which any files are
\* staged; the user has or has not configured a name and an e-mail address,
\* globally and in the repository.
Trees == {t \in [Files -> UNION {Versions[f] : f \in Files}] :
            \A f \in Files : t[f] \in Versions[f]}
Identities == {c \in [ConfigKeys -> {"unset"} \cup {UserIdentity[k] : k \in ConfigKeys}] :
                 \A k \in ConfigKeys : c[k] \in {"unset", UserIdentity[k]}}

ProjectDirectories ==
    {[git |-> g, commits |-> <<>>, index |-> i, unmerged |-> {}, wt |-> w,
      revert |-> "none", stash |-> <<>>,
      config |-> [local |-> l, global |-> gl],
      dir |-> PlainDir]
     : g \in BOOLEAN, i \in Trees, w \in Trees, l \in Identities, gl \in Identities}

BootstrapInit ==
    /\ repo \in {d \in ProjectDirectories :
                    ~d.git => (d.index = EmptyTree /\ d.config.local = NoIdentity)}
    /\ op = "init"
    /\ args = <<>>
    /\ result = NoResult
    /\ cmds = <<>>
    /\ calls = NoCalls

BootstrapNext == EnsureGitRepo

SpecBootstrap == BootstrapInit /\ [][BootstrapNext]_vars

\* The revert engine and the checkpoint committer in a project directory of
\* either name, over a short history.
LockInit ==
    /\ repo \in {[NotARepository EXCEPT !.dir = d] : d \in ProjectDirs}
    /\ op = "init"
    /\ args = <<>>
    /\ result = NoResult
    /\ cmds = <<>>
    /\ calls = NoCalls

ShortHistory == Len(repo.commits) < MaxLockHist

LockNext ==
    \/ EnsureGitRepo
    \/ ShortHistory /\ \E f \in Files : \E v \in Versions[f] : EditFile(f, v)
    \/ ShortHistory /\ \E f \in Files : StageFile(f)
    \/ ShortHistory /\ GitCommitChanges(CheckpointMsg)
    \/ ShortHistory /\ \E range \in RangeInputs(repo) :
                           GitRevertRange(range[1], range[2], RevertMsg, {})

SpecLock == LockInit /\ [][LockNext]_vars

\* The queries on a repository whose files are edited, staged and committed:
\* git_current_commit, git_commit_count_between, git_log_between and
\* check_reset_safety are called in any state, with references that resolve
\* and references that do not.
QueryHistory == Len(repo.commits) < MaxQueryHist

QueryRefs(r) == {EmptyRef} \cup 0..(HeadRef(r) + 1)

\* A call of git_log_between that stages the working tree on its way; C21
\* does not hold of it.
GitLogBetweenStaging(from, to) ==
    /\ repo' = GitAddAll(repo).repo
    /\ op' = "git_log_between"
    /\ args' = [from |-> from, to |-> to]
    /\ result' = git_log_between(repo, from, to)
    /\ cmds' = <<"add", "log">>
    /\ calls' = calls

GitCurrentCommit ==
    /\ op' = "git_current_commit"
    /\ args' = <<>>
    /\ result' = git_current_commit(repo)
    /\ cmds' = <<"rev-parse">>
    /\ UNCHANGED <<repo, calls>>

GitCommitCountBetween(from, to) ==
    /\ op' = "git_commit_count_between"
    /\ args' = [from |-> from, to |-> to]
    /\ result' = git_commit_count_between(repo, from, to)
    /\ cmds' = <<"rev-list">>
    /\ UNCHANGED <<repo, calls>>

GitLogBetween(from, to) ==
    /\ op' = "git_log_between"
    /\ args' = [from |-> from, to |-> to]
    /\ result' = git_log_between(repo, from, to)
    /\ cmds' = <<"log">>
    /\ UNCHANGED <<repo, calls>>

QueriesNext ==
    \/ EnsureGitRepo
    \/ QueryHistory /\ \E f \in Files : \E v \in Versions[f] : EditFile(f, v)
    \/ QueryHistory /\ \E f \in Files : StageFile(f)
    \/ QueryHistory /\ GitCommitChanges(CheckpointMsg)
    \/ GitCurrentCommit
    \/ \E from \in QueryRefs(repo), to \in QueryRefs(repo) :
          GitCommitCountBetween(from, to)
    \/ \E from \in QueryRefs(repo), to \in QueryRefs(repo) : GitLogBetween(from, to)
    \/ \E target_commit \in QueryRefs(repo), current_engine \in Engines :
          CheckResetSafety(target_commit, current_engine)

SpecQueries == Init /\ [][QueriesNext]_vars

\* The revert engine with a commit-count query that fails or not: files are
\* edited and checkpointed while the history is short, and ranges of it are
\* reverted.
CountHistory == Len(repo.commits) < MaxCountHist

\* No query of a call fails, or one of them does.
QueryFailures == {{}} \cup {{q} : q \in Queries}

CountNext ==
    \/ EnsureGitRepo
    \/ CountHistory /\ \E f \in Files : \E v \in Versions[f] : EditFile(f, v)
    \/ CountHistory /\ GitCommitChanges(CheckpointMsg)
    \/ /\ Len(repo.commits) <= MaxCountHist
       /\ \E range \in RangeInputs(repo), failing_queries \in QueryFailures :
             GitRevertRange(range[1], range[2], RevertMsg, failing_queries)

SpecCount == Init /\ [][CountNext]_vars

\* A call of git_revert_range and a call of git_commit_changes made on the
\* same repository by two threads.  Neither function takes a lock, so the
\* commands of the two calls interleave in any order; each git command is
\* one step.  Before the calls the files are edited and checkpointed; the
\* calls are made once, and nothing else touches the repository while they
\* run.  The commands fail for what the repository holds only.
Quiet == calls = NoCalls

\* One command of the call of git_revert_range (none when the call returns
\* without one): the repository and the call it leaves.
RangeStep(command, r, call) ==
    /\ repo' = r
    /\ calls' = [calls EXCEPT !.git_revert_range = call]
    /\ op' = "git_revert_range"
    /\ args' = <<>>
    /\ result' = call.ret
    /\ cmds' = command

ChangesStep(command, r, call) ==
    /\ repo' = r
    /\ calls' = [calls EXCEPT !.git_commit_changes = call]
    /\ op' = "git_commit_changes"
    /\ args' = <<>>
    /\ result' = call.ret
    /\ cmds' = command

Returned(call, ret) == [call EXCEPT !.pc = "returned", !.ret = ret]

\* The call is made: the early return on commit_before = commit_after, or on
\* to the commit count.
CallGitRevertRange(commit_before, commit_after, message) ==
    LET call == [NotCalledRevertRange EXCEPT
                     !.commit_before = commit_before,
                     !.commit_after = commit_after,
                     !.message = message,
                     !.history_at_call = Len(repo.commits)]
    IN  /\ calls.git_revert_range.pc = "idle"
        /\ IF commit_before = commit_after
           THEN RangeStep(<<>>, repo,
                          Returned(call, Ok(RevertResult(TRUE, 0, None,
                                                         "nothing_to_revert", FALSE))))
           ELSE RangeStep(<<>>, repo, [call EXCEPT !.pc = "rev-list"])

\* git_commit_count_between(..).unwrap_or(1)
RangeCountStep ==
    LET call == calls.git_revert_range
        count == git_commit_count_between(repo, call.commit_before, call.commit_after)
    IN  /\ call.pc = "rev-list"
        /\ RangeStep(<<"rev-list">>, repo,
                     [call EXCEPT !.pc = "revert --no-commit",
                                  !.commit_count = IF count.ok THEN count.val ELSE 1])

\* `git revert --no-commit`: on to the status check, to the abort, or the
\* error returned.
RangeRevertStep ==
    LET call == calls.git_revert_range
        revert_output == GitRevertNoCommit(repo, call.commit_before, call.commit_after)
        staged == [call EXCEPT !.inverse =
                       [f \in Files |->
                            IF revert_output.repo.index[f] # repo.index[f]
                            THEN revert_output.repo.index[f]
                            ELSE "untouched"]]
    IN  /\ call.pc = "revert --no-commit"
        /\ RangeStep(<<"revert --no-commit">>, revert_output.repo,
                     IF revert_output.ok THEN [staged EXCEPT !.pc = "status"]
                     ELSE IF StderrSaysConflict[revert_output.stderr]
                     THEN [staged EXCEPT !.pc = "revert --abort"]
                     ELSE Returned(staged, Err("Git revert failed")))

\* `git revert --abort`, its outcome dropped, and the conflict result.
RangeAbortStep ==
    LET call == calls.git_revert_range
    IN  /\ call.pc = "revert --abort"
        /\ RangeStep(<<"revert --abort">>, GitRevertAbort(repo).repo,
                     Returned(call, Ok(RevertResult(FALSE, 0, None, "conflict", TRUE))))

\* `git status --porcelain`: nothing to commit and the return, or on to the
\* commit.
RangeStatusStep ==
    LET call == calls.git_revert_range
        has_changes == GitStatusPorcelain(repo).stdout # {}
    IN  /\ call.pc = "status"
        /\ RangeStep(<<"status">>, repo,
                     IF ~has_changes
                     THEN Returned(call, Ok(RevertResult(TRUE, call.commit_count, None,
                                                         "already_at_target", FALSE)))
                     ELSE [call EXCEPT !.pc = "commit"])

\* `git commit -m message`
RangeCommitStep ==
    LET call == calls.git_revert_range
        c == GitCommit(repo, call.message, FALSE)
    IN  /\ call.pc = "commit"
        /\ RangeStep(<<"commit">>, c.repo,
                     IF ~c.ok THEN Returned(call, Err("Failed to commit revert"))
                     ELSE [call EXCEPT !.pc = "rev-parse"])

\* git_current_commit(project_path).ok() and the result.
RangeRevParseStep ==
    LET call == calls.git_revert_range
        head == git_current_commit(repo)
    IN  /\ call.pc = "rev-parse"
        /\ RangeStep(<<"rev-parse">>, repo,
                     Returned(call, Ok(RevertResult(TRUE, call.commit_count,
                                                    IF head.ok THEN Some(head.val)
                                                    ELSE None,
                                                    "reverted", FALSE))))

CallGitCommitChanges(message) ==
    /\ calls.git_commit_changes.pc = "idle"
    /\ ChangesStep(<<>>, repo,
                   [NotCalledCommitChanges EXCEPT !.pc = "status", !.message = message])

\* `git status --porcelain`
ChangesStatusStep ==
    LET call == calls.git_commit_changes
        status == GitStatusPorcelain(repo)
    IN  /\ call.pc = "status"
        /\ ChangesStep(<<"status">>, repo,
                       IF ~status.ok THEN Returned(call, Err("Git status failed"))
                       ELSE IF status.stdout = {} THEN Returned(call, Ok(FALSE))
                       ELSE [call EXCEPT !.pc = "add"])

\* `git add -A`
ChangesAddStep ==
    LET call == calls.git_commit_changes
        added == GitAddAll(repo)
    IN  /\ call.pc = "add"
        /\ ChangesStep(<<"add">>, added.repo,
                       IF ~added.ok THEN Returned(call, Err("Git add failed"))
                       ELSE [call EXCEPT !.pc = "commit"])

\* `git commit -m message`
ChangesCommitStep ==
    LET call == calls.git_commit_changes
        c == GitCommit(repo, call.message, FALSE)
    IN  /\ call.pc = "commit"
        /\ ChangesStep(<<"commit">>, c.repo,
                       Returned(call, IF c.ok THEN Ok(TRUE) ELSE Err("Git commit failed")))

RaceNext ==
    \/ Quiet /\ EnsureGitRepo
    \/ /\ Quiet
       /\ Len(repo.commits) <= MaxRaceHist
       /\ \E f \in Files : \E v \in Versions[f] : EditFile(f, v)
    \/ /\ Quiet
       /\ Len(repo.commits) < MaxRaceHist
       /\ GitCommitChanges(CheckpointMsg)
    \/ \E range \in RangeInputs(repo) : CallGitRevertRange(range[1], range[2], RevertMsg)
    \/ RangeCountStep
    \/ RangeRevertStep
    \/ RangeAbortStep
    \/ RangeStatusStep
    \/ RangeCommitStep
    \/ RangeRevParseStep
    \/ CallGitCommitChanges(CheckpointMsg)
    \/ ChangesStatusStep
    \/ ChangesAddStep
    \/ ChangesCommitStep

SpecRace == Init /\ [][RaceNext]_vars

----------------------------------------------------------------------------
(* Properties of git_revert_range.  They are properties of a step: the     *)
(* unprimed variables are the repository before the call, the primed ones  *)
(* the call and what it left.                                              *)

\* The step is a call of git_revert_range.
RevertRangeCalled == op' = "git_revert_range"

\* The call ran `git revert --no-commit` and the command succeeded: the
\* status check is the third command issued.
RevertStepSucceeded ==
    /\ RevertRangeCalled
    /\ Len(cmds') >= 3
    /\ cmds'[3] = "status"

\* The file is changed by a commit made after commit `after` and by no
\* commit up to it.
ChangedOnlyAfter(r, f, after) ==
    /\ \E c \in (after + 1)..HeadRef(r) : TreeAt(r, c)[f] # TreeAt(r, c - 1)[f]
    /\ \A c \in 1..after : TreeAt(r, c)[f] = TreeAt(r, c - 1)[f]

\* C1: when git_revert_range, called with commit_before a proper ancestor
\* of commit_after and commit_after an ancestor of HEAD, returns success
\* with new_commit set, the new history is the old one plus exactly one
\* commit on top, and every file changed only by commits made after
\* commit_after has at the new HEAD the content it had at the old HEAD.
C1_RevertPreservesLaterHistory ==
    [][(/\ RevertRangeCalled
        /\ 1 <= args'.commit_before
        /\ args'.commit_before < args'.commit_after
        /\ args'.commit_after <= HeadRef(repo)
        /\ result'.ok
        /\ result'.val.success
        /\ result'.val.new_commit.some)
       => /\ Len(repo'.commits) = Len(repo.commits) + 1
          /\ SubSeq(repo'.commits, 1, Len(repo.commits)) = repo.commits
          /\ \A f \in Files :
                ChangedOnlyAfter(repo, f, args'.commit_after)
                    => HeadTree(repo')[f] = HeadTree(repo)[f]]_vars

\* C2: after git_revert_range returns has_conflicts = true, HEAD, the index
\* and the working tree are what they were before the call and no revert is
\* left in progress, whatever the range and whatever became of
\* `revert --abort`.
C2_ConflictLeavesRepositoryAsItWas ==
    [][(/\ RevertRangeCalled
        /\ result'.ok
        /\ result'.val.has_conflicts)
       => /\ repo'.commits = repo.commits
          /\ repo'.index = repo.index
          /\ repo'.unmerged = repo.unmerged
          /\ repo'.wt = repo.wt
          /\ repo'.revert = "none"]_vars

\* C3: when the revert step of git_revert_range succeeds and stages
\* nothing, the call returns Ok with success = true and new_commit = None
\* and creates no commit, in every state of the working tree.
C3_NothingStagedIsNotAnError ==
    [][(/\ RevertStepSucceeded
        /\ GitRevertNoCommit(repo, args'.commit_before, args'.commit_after).repo.index
              = repo.index)
       => /\ result'.ok
          /\ result'.val.success
          /\ ~result'.val.new_commit.some
          /\ repo'.commits = repo.commits]_vars

\* The call ran `git revert --no-commit` and did not reach the status check:
\* the revert step failed.
RevertStepFailed ==
    /\ RevertRangeCalled
    /\ args'.commit_before # args'.commit_after
    /\ ~RevertStepSucceeded

\* What `git revert --no-commit` does with the arguments of the call on the
\* repository before it.
RevertStepOutcome == GitRevertNoCommit(repo, args'.commit_before, args'.commit_after)

\* C12: when the revert step fails, a content conflict yields
\* Ok(RevertResult) with success = false, has_conflicts = true,
\* commits_reverted = 0 and new_commit = None, every other failure yields
\* Err and never a RevertResult, and no commit is created either way.  (A
\* step that ends in Err and leaves the repository untouched where git
\* would have met a conflict is the command failing before it ran.)
C12_FailureIsConflictResultOrErr ==
    [][RevertStepFailed
       => /\ repo'.commits = repo.commits
          /\ result'.ok
                => /\ ~result'.val.success
                   /\ result'.val.has_conflicts
                   /\ result'.val.commits_reverted = 0
                   /\ result'.val.new_commit = None
                   /\ RevertStepOutcome.stderr.kind = "could_not_revert"
          /\ (~RevertStepOutcome.ok /\ RevertStepOutcome.stderr.kind = "could_not_revert")
                => result'.ok \/ repo' = repo]_vars

\* The call ran the revert step and returned without creating the revert
\* commit: with the conflict result or with an Err.
RevertGivenUp ==
    /\ RevertRangeCalled
    /\ Len(cmds') >= 2
    /\ cmds'[2] = "revert --no-commit"
    /\ ~result'.ok \/ result'.val.has_conflicts

\* C13: on every exit of git_revert_range taken after the revert step ran
\* and without the revert commit (the conflict result, the Err of a revert
\* failure, the Err of a commit failure), index and working tree are what
\* they were before the call, nothing of the inverse changes is staged and
\* no revert is in progress.
C13_GivingUpRestoresTheRepository ==
    [][RevertGivenUp
       => /\ repo'.commits = repo.commits
          /\ repo'.index = repo.index
          /\ repo'.unmerged = repo.unmerged
          /\ repo'.wt = repo.wt
          /\ repo'.revert = "none"]_vars

\* C23: a call of git_revert_range on two different hashes runs the count
\* query and then the revert step, whether the query fails or not; a result
\* with success=true reports commits_reverted = 1 when the query failed and
\* the number of commits after commit_before up to commit_after when it
\* succeeded.
C23_CountFailureDoesNotAbort ==
    [][(RevertRangeCalled /\ args'.commit_before # args'.commit_after)
       => /\ Len(cmds') >= 2
          /\ cmds'[1] = "rev-list"
          /\ cmds'[2] = "revert --no-commit"
          /\ (result'.ok /\ result'.val.success)
             => result'.val.commits_reverted =
                   IF args'.count.ok THEN args'.commit_after - args'.commit_before
                   ELSE 1]_vars

\* A range of two commits reverted and committed after a failed count query:
\* the result reports one commit.
C23_Witness ==
    /\ op = "git_revert_range"
    /\ ~args.count.ok
    /\ args.commit_after - args.commit_before = 2
    /\ result.ok
    /\ result.val.success
    /\ result.val.new_commit.some
    /\ result.val.commits_reverted = 1

\* The call appended a commit to the history.
RevertCommitCreated ==
    /\ RevertRangeCalled
    /\ repo'.commits # repo.commits

\* C24: when git_revert_range creates the revert commit, the history is the
\* previous history with one commit appended, whatever the number of commits
\* in the range; that commit carries the supplied message; and the result
\* has success=true, has_conflicts=false and new_commit = the new HEAD.
C24_OneRevertCommitIsReported ==
    [][RevertCommitCreated
       => /\ Len(repo'.commits) = Len(repo.commits) + 1
          /\ SubSeq(repo'.commits, 1, Len(repo.commits)) = repo.commits
          /\ repo'.commits[Len(repo'.commits)].msg = args'.message
          /\ result'.ok
          /\ result'.val.success
          /\ ~result'.val.has_conflicts
          /\ result'.val.new_commit = Some(HeadRef(repo'))]_vars

\* C25: when git_revert_range returns success=true with new_commit=None
\* after a revert step that succeeded and the history has no new commit,
\* index and working tree are what they were before the call: the revert
\* step staged nothing.
C25_NoCommitMeansNothingStaged ==
    [][(/\ RevertStepSucceeded
        /\ result'.ok
        /\ result'.val.success
        /\ ~result'.val.new_commit.some
        /\ repo'.commits = repo.commits)
       => /\ repo'.index = repo.index
          /\ repo'.wt = repo.wt]_vars

\* The net change of the range leaves the file as it was.
UntouchedByRange(r, f, before, after) == TreeAt(r, before)[f] = TreeAt(r, after)[f]

\* C28: in the commit git_revert_range creates, a file that the net change
\* of the range does not touch has the content it had at the old HEAD, and
\* what was staged or changed in the working tree for such a file before the
\* call is staged or changed in the working tree after it.
C28_RevertCommitHoldsOnlyTheInverse ==
    [][RevertCommitCreated
       => \A f \in Files :
             UntouchedByRange(repo, f, args'.commit_before, args'.commit_after)
             => /\ HeadTree(repo')[f] = HeadTree(repo)[f]
                /\ repo'.index[f] = repo.index[f]
                /\ repo'.wt[f] = repo.wt[f]]_vars

\* Commit k of the history records an inverse change that the revert step of
\* the call staged: it gives a file the content the revert step staged for
\* it, which the commit before k does not hold.
HoldsInverse(call, r, k) ==
    \E f \in Files :
        /\ call.inverse[f] # "untouched"
        /\ TreeAt(r, k)[f] = call.inverse[f]
        /\ TreeAt(r, k - 1)[f] # call.inverse[f]

\* The call of git_revert_range returns in this step.
RevertRangeReturns ==
    /\ calls.git_revert_range.pc # "returned"
    /\ calls'.git_revert_range.pc = "returned"

\* C29: with the commands of a git_revert_range call and of a
\* git_commit_changes call interleaved, a step that adds a commit holding
\* inverse changes staged by the revert step is the commit command of
\* git_revert_range and the commit carries its message; and when
\* git_revert_range returns a result with new_commit = None, no commit added
\* since the call was made holds those inverse changes.
C29_OnlyTheRevertCommitsItsInverse ==
    [][/\ (/\ Len(repo'.commits) = Len(repo.commits) + 1
           /\ HoldsInverse(calls.git_revert_range, repo', HeadRef(repo')))
          => /\ op' = "git_revert_range"
             /\ cmds' = <<"commit">>
             /\ repo'.commits[HeadRef(repo')].msg = calls.git_revert_range.message
       /\ (/\ RevertRangeReturns
           /\ calls'.git_revert_range.ret.ok
           /\ ~calls'.git_revert_range.ret.val.new_commit.some)
          => \A k \in (calls'.git_revert_range.history_at_call + 1)..HeadRef(repo') :
                ~HoldsInverse(calls'.git_revert_range, repo', k)]_vars

\* C4: git_revert_range called with commit_before = commit_after returns
\* success = true, commits_reverted = 0, new_commit = None and
\* has_conflicts = false in every state of the repository, issues no git
\* command and leaves the repository as it was; the result being a function
\* of the arguments alone and the state being unchanged, a repeated call
\* returns the same and changes nothing.
C4_EmptyRangeIsANoOp ==
    [][(RevertRangeCalled /\ args'.commit_before = args'.commit_after)
       => /\ result'.ok
          /\ result'.val.success
          /\ result'.val.commits_reverted = 0
          /\ result'.val.new_commit = None
          /\ ~result'.val.has_conflicts
          /\ cmds' = <<>>
          /\ repo' = repo]_vars

\* An empty range given while a conflicted revert is left in progress, the
\* index holding unmerged entries and the working tree conflict markers.
C4_Witness ==
    /\ op = "git_revert_range"
    /\ args.commit_before = args.commit_after
    /\ result.ok
    /\ result.val.success
    /\ repo.revert = "sequencer"
    /\ repo.unmerged # {}
    /\ \E f \in Files : repo.wt[f] = "conflict"

----------------------------------------------------------------------------
(* Properties of git_commit_changes, of steps as above *)

CommitChangesCalled == op' = "git_commit_changes"

\* Nothing staged, no tracked file modified, no untracked file.
CleanWorkingTree(r) ==
    /\ r.git
    /\ r.unmerged = {}
    /\ r.index = HeadTree(r)
    /\ r.wt = r.index

\* C14 as claimed: on a clean working tree git_commit_changes returns
\* Ok(false), runs neither add nor commit and changes nothing.
C14_CleanTreeReturnsFalse ==
    [][(CommitChangesCalled /\ CleanWorkingTree(repo))
       => /\ result' = Ok(FALSE)
          /\ \A i \in DOMAIN cmds' : cmds'[i] \notin {"add", "commit"}
          /\ repo' = repo]_vars

\* C14: on a clean working tree git_commit_changes runs `git status` and
\* nothing else and changes nothing; it returns Ok(false), or the Err of a
\* status command that failed.
C14_CleanTreeChangesNothing ==
    [][(CommitChangesCalled /\ CleanWorkingTree(repo))
       => /\ result' \in {Ok(FALSE), Err("Git status failed")}
          /\ cmds' = <<"status">>
          /\ repo' = repo]_vars

\* Ok(false) on a clean tree whose history holds commits made after the
\* bootstrap commit.
C14_Witness ==
    /\ op = "git_commit_changes"
    /\ result = Ok(FALSE)
    /\ cmds = <<"status">>
    /\ CleanWorkingTree(repo)
    /\ Len(repo.commits) >= 2

\* C15: when git_commit_changes returns Ok(true), the history is the previous
\* history with one commit appended, that commit carries the supplied message
\* and records the working tree as it was when the call began, the working
\* tree is untouched and clean afterwards, and the status at the beginning of
\* the call was not empty.
C15_CommitRecordsTheWorkingTree ==
    [][(CommitChangesCalled /\ result' = Ok(TRUE))
       => /\ repo'.commits = Append(repo.commits,
                                    [tree |-> repo.wt, msg |-> args'.message])
          /\ repo'.wt = repo.wt
          /\ CleanWorkingTree(repo')
          /\ StatusLines(repo) # {}]_vars

\* Ok(true) for a commit that records a deletion and a new file at once.
C15_Witness ==
    /\ op = "git_commit_changes"
    /\ result = Ok(TRUE)
    /\ Len(repo.commits) >= 3
    /\ LET last == repo.commits[Len(repo.commits)].tree
           prev == repo.commits[Len(repo.commits) - 1].tree
       IN  /\ \E f \in Files : prev[f] # "absent" /\ last[f] = "absent"
           /\ \E f \in Files : prev[f] = "absent" /\ last[f] # "absent"
    /\ repo.commits[Len(repo.commits)].msg = CheckpointMsg
    /\ CleanWorkingTree(repo)

----------------------------------------------------------------------------
(* Properties of git_stash_save, of steps as above *)

StashSaveCalled == op' = "git_stash_save"

\* The stash command was run and stored nothing.
StashCommandFailed ==
    /\ StashSaveCalled
    /\ cmds' = <<"status", "stash">>
    /\ repo'.stash = repo.stash

----------------------------------------------------------------------------
(* Properties of ensure_git_repo, of steps as above *)

EnsureCalled == op' = "ensure_git_repo"

\* The commits of the history that ensure_git_repo made.
BootstrapCommits(r) ==
    {i \in DOMAIN r.commits : r.commits[i].msg = InitialCommitMsg}

C18_FirstCommitHoldsExistingFiles ==
    [][(/\ EnsureCalled
        /\ ~Resolves(repo, HeadRef(repo))
        /\ repo.wt # EmptyTree
        /\ result'.ok)
       => /\ Len(repo'.commits) >= 1
          /\ \A f \in Files :
                repo.wt[f] # "absent" => repo'.commits[1].tree[f] = repo.wt[f]
          /\ repo'.wt = repo.wt]_vars

\* C19: when user.name and user.email both have a value before
\* ensure_git_repo is called, both have the same value after it.
C19_ConfiguredIdentityIsKept ==
    [][(EnsureCalled /\ \A k \in ConfigKeys : GitConfigGet(repo, k) # "unset")
       => \A k \in ConfigKeys : GitConfigGet(repo', k) = GitConfigGet(repo, k)]_vars

----------------------------------------------------------------------------
(* Properties of git_revert_range and git_commit_changes when another git  *)
(* process holds the index lock, of steps as above                         *)

\* A revert, add or commit command of the call found the index locked.
MutatingCommandMetLock ==
    /\ op' \in {"git_revert_range", "git_commit_changes"}
    /\ args'.locked \in {"revert --no-commit", "add", "commit"}

\* C20: when a revert, add or commit command of git_revert_range or of
\* git_commit_changes fails on the index lock, the operation returns Err,
\* the command that failed was run once and no command after it, and the
\* history has no new commit.
C20_LockedCommandIsAnError ==
    [][MutatingCommandMetLock
       => /\ ~result'.ok
          /\ cmds' # <<>>
          /\ cmds'[Len(cmds')] = args'.locked
          /\ Cardinality({i \in DOMAIN cmds' : cmds'[i] = args'.locked}) = 1
          /\ repo'.commits = repo.commits]_vars

----------------------------------------------------------------------------
(* Properties of the queries, of steps as above *)

QueryOps ==
    {"git_current_commit", "git_commit_count_between", "git_log_between",
     "check_reset_safety"}

C22_UnresolvedIsAnError ==
    [][op' = "check_reset_safety"
       => /\ ~Resolves(repo, HeadRef(repo)) => ~result'.ok
          /\ ~Resolves(repo, args'.target_commit) => ~result'.ok]_vars

----------------------------------------------------------------------------
(* Properties of check_reset_safety *)

\* A step of check_reset_safety returned a report for a target other than HEAD.
ReportedOnRange ==
    /\ op = "check_reset_safety"
    /\ result.ok
    /\ args.target_commit # HeadRef(repo)

\* The subjects of the commits after the target up to HEAD, oldest first.
SubjectsBetween ==
    [i \in 1..(HeadRef(repo) - args.target_commit) |->
        repo.commits[args.target_commit + i].msg]

\* The marker by which each engine signs its commits.
EngineMarker == [claude |-> PatClaude, codex |-> PatCodex, gemini |-> PatGemini]
MarkedEngines == DOMAIN EngineMarker

MarkerTable ==
    [e \in MarkedEngines |->
        [msg \in DOMAIN CharsOf |-> Contains(CharsOf[msg], EngineMarker[e])]]

CarriesMarkerOf(e, msg) == e \in MarkedEngines /\ MarkerTable[e][msg]
CarriesAnyMarker(msg) == \E e \in MarkedEngines : CarriesMarkerOf(e, msg)
CarriesForeignMarker(current_engine, msg) ==
    \E e \in MarkedEngines \ {current_engine} : CarriesMarkerOf(e, msg)

\* The count a warning prints in its part of the given kind; 0 without one.
WarnedCount(report, kind) ==
    LET at == {i \in 1..Len(report.warning.parts) : report.warning.parts[i].part = kind}
    IN  IF at = {} THEN 0 ELSE report.warning.parts[CHOOSE i \in at : TRUE].n

\* C5: a report for a target other than HEAD says safe_to_proceed exactly
\* when it reports no other-engine commit, no user commit and at most 5
\* commits to lose; for claude, codex and gemini, a range made only of the
\* engine's own commits is safe with 5 commits and unsafe with 6.
C5_SafeIffNoForeignWorkAndAtMostFive ==
    ReportedOnRange =>
        /\ result.val.safe_to_proceed <=>
              /\ ~result.val.has_other_engine_commits
              /\ ~result.val.has_user_commits
              /\ result.val.commits_to_lose <= 5
        /\ (/\ args.current_engine \in MarkedEngines
            /\ \A i \in DOMAIN SubjectsBetween :
                  CarriesMarkerOf(args.current_engine, SubjectsBetween[i]))
           => /\ Len(SubjectsBetween) = 5 => result.val.safe_to_proceed
              /\ Len(SubjectsBetween) = 6 => ~result.val.safe_to_proceed

\* Six commits of the calling engine: one more than the threshold allows.
C5_Witness ==
    /\ ReportedOnRange
    /\ args.current_engine = "gemini"
    /\ Len(SubjectsBetween) = 6
    /\ \A i \in DOMAIN SubjectsBetween : SubjectsBetween[i] = GeminiSubject
    /\ ~result.val.safe_to_proceed
    /\ ~result.val.has_other_engine_commits
    /\ ~result.val.has_user_commits

\* The repository with one more commit, of the given subject, right after
\* the commit at position pos.
WithCommitAfter(r, pos, subject) ==
    [r EXCEPT !.commits =
        SubSeq(@, 1, pos)
        \o <<[tree |-> TreeAt(r, pos), msg |-> subject]>>
        \o SubSeq(@, pos + 1, Len(@))]

\* C6: once a range is reported unsafe for a target and an engine, it is
\* still reported unsafe for that target and engine after a commit that is
\* not the engine's own is added anywhere between the target and HEAD.
C6_UnsafeStaysUnsafe ==
    (ReportedOnRange /\ ~result.val.safe_to_proceed) =>
        \A pos \in args.target_commit..HeadRef(repo), subject \in Subjects :
            ~CarriesMarkerOf(args.current_engine, subject) =>
                LET again == check_reset_safety(WithCommitAfter(repo, pos, subject),
                                                args.target_commit,
                                                args.current_engine).ret
                IN  again.ok /\ ~again.val.safe_to_proceed

\* An unsafe report that rests on the commit count alone: the engine's own
\* commits, with room left in the summary.
C6_Witness ==
    /\ ReportedOnRange
    /\ ~result.val.safe_to_proceed
    /\ ~result.val.has_other_engine_commits
    /\ ~result.val.has_user_commits
    /\ result.val.commits_to_lose = 10

\* C7 as claimed: every commit carrying the marker of an engine other than
\* the caller's is counted as an other-engine commit and sets the flag, and
\* no commit carrying the caller's own marker is counted, also when a
\* subject carries several markers.
C7_ForeignMarkerIsOtherEngine ==
    ReportedOnRange =>
        LET foreign == {i \in DOMAIN SubjectsBetween :
                            CarriesForeignMarker(args.current_engine, SubjectsBetween[i])}
            own == {i \in DOMAIN SubjectsBetween :
                        CarriesMarkerOf(args.current_engine, SubjectsBetween[i])}
        IN  /\ foreign # {} => result.val.has_other_engine_commits
            /\ Cardinality(foreign) <= WarnedCount(result.val, "other_engine")
            /\ WarnedCount(result.val, "other_engine")
                  <= Len(SubjectsBetween) - Cardinality(own)

\* C7: a commit is an other-engine commit exactly when it carries a marker
\* and does not carry the marker of the caller's engine; a commit carrying
\* the caller's marker is never one, also when it carries another marker.
C7_MarkedButNotOwnIsOtherEngine ==
    ReportedOnRange =>
        LET others == {i \in DOMAIN SubjectsBetween :
                           /\ CarriesAnyMarker(SubjectsBetween[i])
                           /\ ~CarriesMarkerOf(args.current_engine, SubjectsBetween[i])}
        IN  /\ result.val.has_other_engine_commits <=> others # {}
            /\ WarnedCount(result.val, "other_engine") = Cardinality(others)

\* A commit that carries the caller's marker and another engine's: it is not
\* counted as an other-engine commit.
C7_Witness ==
    /\ ReportedOnRange
    /\ args.current_engine = "codex"
    /\ \E i \in DOMAIN SubjectsBetween : SubjectsBetween[i] = TwoMarkerSubject
    /\ ~result.val.has_other_engine_commits

\* The subject git gives a merge commit.
MergePrefix == <<"M", "e", "r", "g", "e", " ">>
IsMergeCommitMessage(msg) ==
    Len(CharsOf[msg]) >= Len(MergePrefix)
    /\ SubSeq(CharsOf[msg], 1, Len(MergePrefix)) = MergePrefix

\* C8: has_user_commits is true exactly when a commit between target and
\* HEAD has a subject with no recognized marker that is not a merge-commit
\* message; the warning counts those commits, and none of them is counted as
\* an other-engine commit.
C8_UserCommitsFlagged ==
    ReportedOnRange =>
        LET users == {i \in DOMAIN SubjectsBetween :
                          /\ ~CarriesAnyMarker(SubjectsBetween[i])
                          /\ ~IsMergeCommitMessage(SubjectsBetween[i])}
        IN  /\ result.val.has_user_commits <=> users # {}
            /\ WarnedCount(result.val, "user") = Cardinality(users)
            /\ WarnedCount(result.val, "other_engine") + Cardinality(users)
                  <= Len(SubjectsBetween)

\* The kinds of the parts of a warning, in order.
WarningKinds(report) ==
    [i \in 1..Len(report.warning.parts) |-> report.warning.parts[i].part]

\* C9: a report has no warning exactly when it says safe_to_proceed; an
\* unsafe report's warning is not empty and holds, in this order, the
\* other-engine part if has_other_engine_commits, the user part if
\* has_user_commits, and the large-rollback part only when both flags are
\* false and more than 5 commits would be lost.
C9_WarningMatchesVerdict ==
    (op = "check_reset_safety" /\ result.ok) =>
        /\ ~result.val.warning.some <=> result.val.safe_to_proceed
        /\ ~result.val.safe_to_proceed =>
              /\ Len(result.val.warning.parts) >= 1
              /\ WarningKinds(result.val) =
                    (IF result.val.has_other_engine_commits
                     THEN <<"other_engine">> ELSE <<>>)
                    \o (IF result.val.has_user_commits THEN <<"user">> ELSE <<>>)
                    \o (IF /\ ~result.val.has_other_engine_commits
                           /\ ~result.val.has_user_commits
                           /\ result.val.commits_to_lose > 5
                        THEN <<"large_rollback">> ELSE <<>>)

\* More than 5 commits lost, among them other-engine and user commits: two
\* parts, and no large-rollback part.
C9_Witness ==
    /\ op = "check_reset_safety"
    /\ result.ok
    /\ result.val.commits_to_lose > 5
    /\ WarningKinds(result.val) = <<"other_engine", "user">>

\* C10: commits_summary holds the first min(n, 10) of the n subjects between
\* target and HEAD, newest first, while commits_to_lose is n and the flags
\* and counts cover all n commits.
C10_SummaryIsPrefixOfAllSubjects ==
    ReportedOnRange =>
        LET n == Len(SubjectsBetween)
            newestFirst == Reverse(SubjectsBetween)
        IN  /\ Len(result.val.commits_summary) <= 10
            /\ result.val.commits_summary =
                  SubSeq(newestFirst, 1, IF n < 10 THEN n ELSE 10)
            /\ result.val.commits_to_lose = n
            /\ WarnedCount(result.val, "other_engine") + WarnedCount(result.val, "user")
                  <= n

\* C26: a report that says safe_to_proceed with commits to lose is a report
\* on a range in which every commit carries the marker of the calling
\* engine.
C26_SafeResetLosesOnlyOwnCommits ==
    (/\ ReportedOnRange
     /\ result.val.safe_to_proceed
     /\ result.val.commits_to_lose > 0)
    => /\ args.current_engine \in MarkedEngines
       /\ \A i \in DOMAIN SubjectsBetween :
             CarriesMarkerOf(args.current_engine, SubjectsBetween[i])

\* C27: in a report on a range, the subject lines git_log_between returned
\* for classification are as many as commits_to_lose, and they are the
\* subjects of the commits of the range, newest first, one for each.
C27_EveryCountedCommitIsClassified ==
    ReportedOnRange =>
        LET classified == git_log_between(repo, args.target_commit, HeadRef(repo))
        IN  /\ classified.ok
            /\ Len(classified.val) = result.val.commits_to_lose
            /\ classified.val = Reverse(SubjectsBetween)

\* C11: when the target is the resolved HEAD, check_reset_safety returns
\* commits_to_lose = 0, both flags false, an empty summary, safe_to_proceed
\* and no warning, having run neither the count nor the log query, for
\* every engine identity and every history.
C11_TargetAtHeadShortCircuits ==
    (op = "check_reset_safety" /\ args.target_commit = HeadRef(repo)) =>
        /\ result.ok
        /\ result.val.commits_to_lose = 0
        /\ ~result.val.has_other_engine_commits
        /\ ~result.val.has_user_commits
        /\ result.val.commits_summary = <<>>
        /\ result.val.safe_to_proceed
        /\ ~result.val.warning.some
        /\ \A i \in DOMAIN cmds : cmds[i] \notin {"rev-list", "log"}

\* A call with the target at HEAD by an engine that owns no marker, on a
\* history that holds a user's commit and another engine's.
C11_Witness ==
    /\ op = "check_reset_safety"
    /\ args.target_commit = HeadRef(repo)
    /\ args.current_engine = "unknown"
    /\ result.ok
    /\ result.val.safe_to_proceed
    /\ \E i, j \in DOMAIN repo.commits :
          /\ repo.commits[i].msg = UserSubject
          /\ repo.commits[j].msg = GeminiSubject

====
